---------------------------- MODULE Spec2Model ----------------------------
(***************************************************************************)
(* A model of arcrest/gptypes.py: the conversion layer between the JSON    *)
(* wire values of an ArcGIS REST geoprocessing service and the typed       *)
(* parameter objects (GPBoolean .. GPRasterLayer), plus the registry the   *)
(* metaclass of GPBaseType fills at class-definition time.                 *)
(*                                                                         *)
(* Python values are tagged records: [t |-> "none"], [t |-> "bool", ..],   *)
(* [t |-> "int", ..], [t |-> "float", ..], [t |-> "str", ..], lists,       *)
(* dicts, bound methods, instances ([t |-> "obj", cls |-> ..]) and, for a  *)
(* call that does not return, [t |-> "raise", exc |-> ..].                 *)
(***************************************************************************)
EXTENDS Integers, Sequences, FiniteSets, TLC

VARIABLES
    typeInitOk,       \* whether the interpreter's type.__init__ takes a str receiver
    bound,            \* whether the module global GPBaseType is bound
    defined,          \* the classes created so far, in definition order
    gp_type_mapping,  \* GPBaseType._gp_type_mapping: class name -> class
    call,             \* the last operation called
    arg,              \* its arguments
    res,              \* what it returned or raised
    prev,             \* the call whose result this call was given, if any
    strptimeCalls     \* the strptime calls the last operation made, in order

vars ==
    <<typeInitOk, bound, defined, gp_type_mapping, call, arg, res, prev, strptimeCalls>>
regVars == <<typeInitOk, bound, defined, gp_type_mapping>>
\* what an operation that parses no date leaves alone
idleVars == <<regVars, strptimeCalls>>

-----------------------------------------------------------------------------
(* Python values *)

PyNone == [t |-> "none"]
PyBool(b) == [t |-> "bool", b |-> b]
PyInt(n) == [t |-> "int", n |-> n]
\* a float, kept exactly as a number of tenths
PyFloat(x) == [t |-> "float", tenths |-> x]
\* the floats that are no number of tenths: "inf", "-inf" and "nan"
PyFloatOther(kind) == [t |-> "float", other |-> kind]
PyStr(s) == [t |-> "str", s |-> s]
PyList(l) == [t |-> "list", items |-> l]
PyTuple(l) == [t |-> "tuple", items |-> l]
PyDict(d) == [t |-> "dict", d |-> d]
Raise(e) == [t |-> "raise", exc |-> e]

PyLong(n) == [t |-> "long", n |-> n]
\* an instance of one of the classes, with its attributes
Obj(cls, attrs) == [t |-> "obj", cls |-> cls, attrs |-> attrs]
\* an attribute read that yields a bound method instead of a value
BoundMethod(self, name) == [t |-> "method", self |-> self, name |-> name]

IsRaise(v) == v.t = "raise"

NoCall == [call |-> "none", arg |-> PyNone, res |-> PyNone]
\* the call just made, as the next call of a chain remembers it
ThisCall == [call |-> call, arg |-> arg, res |-> res]

-----------------------------------------------------------------------------
(* Type registry: GPBaseType.__metaclass__.__init__ *)

\* the most classes one behaviour defines
MaxDefs == 4

GPBaseTypeName == <<"G", "P", "B", "a", "s", "e", "T", "y", "p", "e">>
Widget == <<"W", "i", "d", "g", "e", "t">>
Gadget == <<"G", "a", "d", "g", "e", "t">>
\* a compound name, as built for union types
WidgetOrGadget == Widget \o <<"|">> \o Gadget

\* the names a class statement (or a call of the metaclass) may carry
ClassNames == {GPBaseTypeName, Widget, Gadget, WidgetOrGadget}

\* chr in s, for a one-character chr
Contains(s, chr) == \E i \in 1..Len(s) : s[i] = chr

\* d[k] = v on a dict kept as a function
DictSet(d, k, v) == [x \in (DOMAIN d) \cup {k} |-> IF x = k THEN v ELSE d[x]]

EmptyDict == [x \in {} |-> 0]

\* Register without the separator test.
RegisterAnyName(mapping, isBound, name, cls) ==
    IF ~isBound THEN mapping ELSE DictSet(mapping, name, cls)

\* Register rebinding the whole mapping instead of one key.
RegisterFresh(mapping, isBound, name, cls) ==
    IF ~isBound THEN mapping
    ELSE IF ~Contains(name, "|") THEN [x \in {name} |-> cls]
    ELSE mapping

\* The body of __metaclass__.__init__ after type.__init__: the class, here the
\* index of the new class in `defined`, is stored under its name unless the
\* name holds the separator.  The statement reads the global GPBaseType; while
\* the class GPBaseType itself is being created that global is still unbound,
\* the NameError is caught by the bare except and nothing is stored.
Register(mapping, isBound, name, cls) ==
    IF ~isBound THEN mapping
    ELSE IF ~Contains(name, "|") THEN DictSet(mapping, name, cls)
    ELSE mapping

Init ==
    /\ typeInitOk \in BOOLEAN
    /\ bound = FALSE
    /\ defined = << >>
    /\ gp_type_mapping = EmptyDict
    /\ call = "none"
    /\ arg = PyNone
    /\ res = PyNone
    /\ prev = NoCall
    /\ strptimeCalls = << >>

\* `class GPBaseType(object)` with its nested __metaclass__: the first class
\* statement of the module.  The global is bound when the statement completes.
DefineGPBaseType ==
    /\ typeInitOk
    /\ defined = << >>
    /\ defined' = <<[name |-> GPBaseTypeName, base |-> 0]>>
    /\ gp_type_mapping' = Register(gp_type_mapping, bound, GPBaseTypeName, 1)
    /\ bound' = TRUE
    /\ call' = "class"
    /\ arg' = PyStr(GPBaseTypeName)
    /\ res' = PyInt(1)
    /\ UNCHANGED <<typeInitOk, prev, strptimeCalls>>

\* A later class statement (or metaclass call) deriving from an existing class:
\* the metaclass is inherited, so the same __init__ runs.
DefineSubtype(name, base) ==
    /\ typeInitOk
    /\ base \in 1..Len(defined)
    /\ Len(defined) < MaxDefs
    /\ LET cls == Len(defined) + 1 IN
        /\ defined' = Append(defined, [name |-> name, base |-> base])
        /\ gp_type_mapping' = Register(gp_type_mapping, bound, name, cls)
        /\ call' = "class"
        /\ arg' = PyStr(name)
        /\ res' = PyInt(cls)
    /\ UNCHANGED <<typeInitOk, bound, prev, strptimeCalls>>

\* type.__init__(name, bases, dict) passes the name where the class belongs.
\* An interpreter whose type.__init__ is object's ignores it; one with its own
\* type.__init__ rejects the str receiver and the class statement raises before
\* anything is stored or bound.
DefineRaises ==
    /\ ~typeInitOk
    /\ defined = << >>
    /\ call' = "class"
    /\ arg' = PyStr(GPBaseTypeName)
    /\ res' = Raise("TypeError")
    /\ UNCHANGED <<regVars, prev, strptimeCalls>>

NextRegistry ==
    \/ DefineGPBaseType
    \/ \E name \in ClassNames : \E base \in 1..MaxDefs : DefineSubtype(name, base)
    \/ DefineRaises

SpecRegistry == Init /\ [][NextRegistry]_vars

\* the classes defined so far that carry this name
DefinedAs(name) == {i \in 1..Len(defined) : defined[i].name = name}

\* the most recent of them
Latest(name) == CHOOSE i \in DefinedAs(name) : \A j \in DefinedAs(name) : j <= i

NoSeparatorKey == \A k \in DOMAIN gp_type_mapping : ~Contains(k, "|")

\* C1 as stated: every defined class whose name has no '|', GPBaseType
\* included, is found in the registry under its name and the lookup returns
\* that very class; no key of the registry contains '|'.
C1_AsClaimed ==
    /\ \A i \in 1..Len(defined) :
          ~Contains(defined[i].name, "|") =>
              /\ defined[i].name \in DOMAIN gp_type_mapping
              /\ gp_type_mapping[defined[i].name] = i
    /\ NoSeparatorKey

\* C1 amended: every class defined after GPBaseType itself whose name has no
\* '|' is found in the registry under its name, and the lookup returns the
\* most recently defined class of that name; GPBaseType's own definition
\* stores nothing; no key of the registry contains '|'.
C1_Registry ==
    /\ \A i \in 2..Len(defined) :
          ~Contains(defined[i].name, "|") =>
              /\ defined[i].name \in DOMAIN gp_type_mapping
              /\ gp_type_mapping[defined[i].name] = Latest(defined[i].name)
    /\ (Len(defined) = 1 => DOMAIN gp_type_mapping = {})
    /\ \A k \in DOMAIN gp_type_mapping : gp_type_mapping[k] /= 1
    /\ NoSeparatorKey

\* GPBaseType, Widget, a compound name and Widget again have been defined:
\* Widget resolves to the later class and the compound name is not a key.
C1_Witness ==
    /\ Len(defined) = 4
    /\ defined[2].name = Widget
    /\ defined[3].name = WidgetOrGadget
    /\ defined[4].name = Widget
    /\ DOMAIN gp_type_mapping = {Widget}
    /\ gp_type_mapping[Widget] = 4

\* C2 as stated: an entry of the registry is never removed and never bound to
\* another class.
C2_AsClaimed ==
    [][\A k \in DOMAIN gp_type_mapping :
          /\ k \in DOMAIN gp_type_mapping'
          /\ gp_type_mapping'[k] = gp_type_mapping[k]]_vars

\* C2 amended: an entry of the registry is never removed, and it is bound to
\* another class only by the definition of a new class of the same name, which
\* then takes the entry.
C2_AppendOrRebind ==
    [][\A k \in DOMAIN gp_type_mapping :
          /\ k \in DOMAIN gp_type_mapping'
          /\ gp_type_mapping'[k] /= gp_type_mapping[k] =>
                /\ Len(defined') = Len(defined) + 1
                /\ defined'[Len(defined')].name = k
                /\ gp_type_mapping'[k] = Len(defined')]_vars

\* Widget and Gadget are registered, then a second Widget takes Widget's entry
\* while Gadget's stays.
C2_Witness ==
    /\ Len(defined) = 4
    /\ defined[2].name = Widget
    /\ defined[3].name = Gadget
    /\ defined[4].name = Widget
    /\ gp_type_mapping[Widget] = 4
    /\ gp_type_mapping[Gadget] = 3

-----------------------------------------------------------------------------
(* Text.  A Python string that is parsed or formatted is a sequence of
   one-character strings. *)

DigitChars == <<"0", "1", "2", "3", "4", "5", "6", "7", "8", "9">>
IsDigit(c) == \E d \in 1..10 : DigitChars[d] = c
DigitVal(c) == (CHOOSE d \in 1..10 : DigitChars[d] = c) - 1
AllDigits(s) == \A i \in 1..Len(s) : IsDigit(s[i])

RECURSIVE NatToStr(_)
NatToStr(n) ==
    IF n < 10 THEN <<DigitChars[n + 1]>>
    ELSE NatToStr(n \div 10) \o <<DigitChars[(n % 10) + 1]>>

IntToStr(n) == IF n < 0 THEN <<"-">> \o NatToStr(-n) ELSE NatToStr(n)

RECURSIVE DigitsToNat(_)
DigitsToNat(s) ==
    IF s = << >> THEN 0
    ELSE 10 * DigitsToNat(SubSeq(s, 1, Len(s) - 1)) + DigitVal(s[Len(s)])

UpperChars == <<"A", "B", "C", "D", "E", "F", "G", "H", "I", "J", "K", "L", "M", "N", "O", "P", "Q", "R", "S", "T", "U", "V", "W", "X", "Y", "Z">>
LowerChars == <<"a", "b", "c", "d", "e", "f", "g", "h", "i", "j", "k", "l", "m", "n", "o", "p", "q", "r", "s", "t", "u", "v", "w", "x", "y", "z">>

\* c.lower()
Lower(c) ==
    IF \E k \in 1..26 : UpperChars[k] = c
    THEN LowerChars[CHOOSE k \in 1..26 : UpperChars[k] = c]
    ELSE c

\* the characters isspace() holds of: blank, tab, newline, vertical tab (written
\* as the character itself), form feed and carriage return
Whitespace == {" ", "\t", "\n", "", "\f", "\r"}

RECURSIVE LStrip(_)
LStrip(s) == IF s /= << >> /\ s[1] \in Whitespace THEN LStrip(Tail(s)) ELSE s

RECURSIVE RStrip(_)
RStrip(s) ==
    IF s /= << >> /\ s[Len(s)] \in Whitespace
    THEN RStrip(SubSeq(s, 1, Len(s) - 1)) ELSE s

Strip(s) == RStrip(LStrip(s))

SignOf(s) == IF s /= << >> /\ s[1] = "-" THEN -1 ELSE 1
Unsigned(s) == IF s /= << >> /\ s[1] \in {"-", "+"} THEN Tail(s) ELSE s

RECURSIVE Pow10(_)
Pow10(n) == IF n = 0 THEN 1 ELSE 10 * Pow10(n - 1)

\* the position of the first chr in s, or 0
IndexOf(s, chr) ==
    IF Contains(s, chr)
    THEN CHOOSE i \in 1..Len(s) : s[i] = chr /\ \A j \in 1..(i - 1) : s[j] /= chr
    ELSE 0

-----------------------------------------------------------------------------
(* Scalar types: GPSimpleType and GPBoolean, GPDouble, GPLong, GPString *)

ScalarClasses == {"GPBoolean", "GPDouble", "GPLong", "GPString"}

\* bool(v)
Truth(v) ==
    CASE v.t = "none" -> FALSE
      [] v.t = "bool" -> v.b
      [] v.t \in {"int", "long"} -> v.n /= 0
      [] v.t = "float" -> "other" \in DOMAIN v \/ v.tenths /= 0
      [] v.t = "str" -> v.s /= << >>
      [] v.t \in {"list", "tuple"} -> v.items /= << >>
      [] v.t \in {"obj", "sr"} -> TRUE

\* float(v).  A string is stripped of whitespace and read as a sign and then
\* inf, infinity or nan in any case, or digits, point, digits and an exponent;
\* the numbers used here are whole numbers of tenths.
FloatOfStr(s) ==
    LET text == Strip(s)
        body == Unsigned(text)
        word == [k \in 1..Len(body) |-> Lower(body[k])]
        epos == IndexOf(word, "e")
        mant == IF epos = 0 THEN body ELSE SubSeq(body, 1, epos - 1)
        expo == IF epos = 0 THEN << >> ELSE SubSeq(body, epos + 1, Len(body))
        dot == IndexOf(mant, ".")
        ip == IF dot = 0 THEN mant ELSE SubSeq(mant, 1, dot - 1)
        fp == IF dot = 0 THEN << >> ELSE SubSeq(mant, dot + 1, Len(mant))
        \* the power of ten that turns the digits into tenths
        shift == SignOf(expo) * DigitsToNat(Unsigned(expo)) - Len(fp) + 1
        digits == DigitsToNat(ip \o fp)
    IN  IF word \in {<<"i", "n", "f">>, <<"i", "n", "f", "i", "n", "i", "t", "y">>}
        THEN PyFloatOther(IF SignOf(text) = -1 THEN "-inf" ELSE "inf")
        ELSE IF word = <<"n", "a", "n">> THEN PyFloatOther("nan")
        ELSE IF /\ AllDigits(ip) /\ AllDigits(fp) /\ (ip /= << >> \/ fp /= << >>)
                /\ epos /= 0 => (Unsigned(expo) /= << >> /\ AllDigits(Unsigned(expo)))
        THEN CASE shift >= 0 -> PyFloat(SignOf(text) * digits * Pow10(shift))
               [] shift < 0 /\ digits % Pow10(-shift) = 0 ->
                      PyFloat(SignOf(text) * (digits \div Pow10(-shift)))
        ELSE Raise("ValueError")

ToFloat(v) ==
    CASE v.t = "bool" -> PyFloat(IF v.b THEN 10 ELSE 0)
      [] v.t \in {"int", "long"} -> PyFloat(10 * v.n)
      [] v.t = "float" -> v
      [] v.t = "str" -> FloatOfStr(v.s)
      [] v.t \in {"none", "list", "tuple"} -> Raise("TypeError")

\* long(v): a float is truncated towards zero, infinity is an OverflowError
\* and nan a ValueError; a string is stripped of whitespace and read as a
\* sign, whitespace, digits and an optional l or L.
LongOfStr(s) ==
    LET text == Strip(s)
        afterSign == LStrip(Unsigned(text))
        body == IF afterSign /= << >> /\ afterSign[Len(afterSign)] \in {"l", "L"}
                THEN SubSeq(afterSign, 1, Len(afterSign) - 1)
                ELSE afterSign
    IN  IF body /= << >> /\ AllDigits(body)
        THEN PyLong(SignOf(text) * DigitsToNat(body))
        ELSE Raise("ValueError")

ToLong(v) ==
    CASE v.t = "bool" -> PyLong(IF v.b THEN 1 ELSE 0)
      [] v.t \in {"int", "long"} -> PyLong(v.n)
      [] v.t = "float" ->
            IF "tenths" \in DOMAIN v
            THEN PyLong(IF v.tenths >= 0 THEN v.tenths \div 10
                        ELSE -((-v.tenths) \div 10))
            ELSE Raise(IF v.other = "nan" THEN "ValueError" ELSE "OverflowError")
      [] v.t = "str" -> LongOfStr(v.s)
      [] v.t \in {"none", "list", "tuple"} -> Raise("TypeError")

\* str(v)
RECURSIVE ReprItems(_)
\* the items of a list or tuple as str() shows them: the repr of each, a long
\* with its L
ReprItems(items) ==
    IF items = << >> THEN << >>
    ELSE (CASE items[1].t = "int" -> IntToStr(items[1].n)
            [] items[1].t = "long" -> IntToStr(items[1].n) \o <<"L">>
            [] items[1].t = "bool" ->
                  (IF items[1].b THEN <<"T", "r", "u", "e">>
                   ELSE <<"F", "a", "l", "s", "e">>)
            [] items[1].t = "none" -> <<"N", "o", "n", "e">>)
            \o (IF Len(items) > 1 THEN <<",", " ">> ELSE << >>)
            \o ReprItems(Tail(items))

ToStr(v) ==
    CASE v.t = "none" -> PyStr(<<"N", "o", "n", "e">>)
      [] v.t = "bool" ->
            PyStr(IF v.b THEN <<"T", "r", "u", "e">> ELSE <<"F", "a", "l", "s", "e">>)
      [] v.t \in {"int", "long"} -> PyStr(IntToStr(v.n))
      [] v.t = "float" ->
            IF "tenths" \in DOMAIN v
            THEN LET a == IF v.tenths < 0 THEN -v.tenths ELSE v.tenths
                 IN  PyStr((IF v.tenths < 0 THEN <<"-">> ELSE << >>)
                               \o NatToStr(a \div 10) \o <<".">> \o NatToStr(a % 10))
            ELSE PyStr(CASE v.other = "inf" -> <<"i", "n", "f">>
                         [] v.other = "-inf" -> <<"-", "i", "n", "f">>
                         [] v.other = "nan" -> <<"n", "a", "n">>)
      [] v.t = "str" -> v
      [] v.t = "list" -> PyStr(<<"[">> \o ReprItems(v.items) \o <<"]">>)
      [] v.t = "tuple" ->
            PyStr(<<"(">> \o ReprItems(v.items)
                    \o (IF Len(v.items) = 1 THEN <<",">> ELSE << >>) \o <<")">>)

\* cls.__conversion__(v); GPSimpleType's own __conversion__ is None, and
\* calling it is a TypeError
Conversion(cls, v) ==
    CASE cls = "GPBoolean" -> PyBool(Truth(v))
      [] cls = "GPDouble" -> ToFloat(v)
      [] cls = "GPLong" -> ToLong(v)
      [] cls = "GPString" -> ToStr(v)
      [] cls = "GPSimpleType" -> Raise("TypeError")

\* GPSimpleType.__init__
GPSimpleTypeInit(cls, val) == Obj(cls, [value |-> val])

\* GPSimpleType._json_struct
ScalarJsonStruct(self) == Conversion(self.cls, self.attrs.value)

\* from_json_struct wrapping its result in an instance, as the other types do
ScalarFromJsonStructWrapped(cls, value) ==
    IF IsRaise(Conversion(cls, value)) THEN Conversion(cls, value)
    ELSE GPSimpleTypeInit(cls, Conversion(cls, value))

\* GPSimpleType.from_json_struct
ScalarFromJsonStruct(cls, value) == Conversion(cls, value)

ScalarInputs ==
    {PyNone, PyBool(TRUE), PyBool(FALSE),
     PyInt(-2), PyInt(0), PyInt(15),
     PyFloat(-15), PyFloat(0), PyFloat(15), PyFloat(20),
     PyStr(<< >>), PyStr(<<"0">>), PyStr(<<"1", "5">>), PyStr(<<"1", ".", "5">>),
     PyStr(<<"-", "2">>), PyStr(<<" ", "7", " ">>), PyStr(<<".", "5">>),
     PyStr(<<"a", "b", "c">>), PyStr(<<"T", "r", "u", "e">>),
     PyStr(<<"1", "e", "1">>), PyStr(<<"1", "5", "e", "-", "1">>), PyStr(<<"1", "5", "L">>), PyStr(<<"-", " ", "2">>),
     PyStr(<<"\t", "7">>), PyStr(<<"n", "a", "n">>), PyStr(<<"-", "I", "n", "f">>),
     PyFloatOther("nan"), PyFloatOther("inf"),
     PyStr(<<"", "7">>),
     PyList(<< >>), PyList(<<PyInt(1), PyInt(2)>>), PyList(<<PyLong(5)>>),
     PyTuple(<<PyInt(1), PyInt(2)>>), PyTuple(<<PyInt(1)>>)}

\* T(val)
ScalarConstruct(cls, val) ==
    /\ call' = cls
    /\ arg' = val
    /\ res' = GPSimpleTypeInit(cls, val)
    /\ prev' = NoCall
    /\ UNCHANGED idleVars

\* x._json_struct on the instance just built
ScalarEncode ==
    /\ call \in ScalarClasses \cup {"GPSimpleType"}
    /\ res.t = "obj"
    /\ call' = "_json_struct"
    /\ arg' = res
    /\ res' = ScalarJsonStruct(res)
    /\ prev' = ThisCall
    /\ UNCHANGED idleVars

\* T.from_json_struct(value) on a value off the wire
ScalarDecode(cls, value) ==
    /\ call' = "from_json_struct"
    /\ arg' = [cls |-> cls, value |-> value]
    /\ res' = ScalarFromJsonStruct(cls, value)
    /\ prev' = NoCall
    /\ UNCHANGED idleVars

\* T.from_json_struct on the encoding just taken
ScalarDecodeWire ==
    /\ call = "_json_struct"
    /\ ~IsRaise(res)
    /\ call' = "from_json_struct"
    /\ arg' = [cls |-> arg.cls, value |-> res]
    /\ res' = ScalarFromJsonStruct(arg.cls, res)
    /\ prev' = ThisCall
    /\ UNCHANGED idleVars

NextScalar ==
    \/ \E cls \in ScalarClasses \cup {"GPSimpleType"} :
         \E val \in ScalarInputs : ScalarConstruct(cls, val)
    \/ ScalarEncode
    \/ \E cls \in ScalarClasses \cup {"GPSimpleType"} :
         \E val \in ScalarInputs : ScalarDecode(cls, val)
    \/ ScalarDecodeWire

\* the class statements of the module, in order, each with the index of its
\* base class
ModuleClasses ==
    <<[name |-> <<"G", "P", "B", "a", "s", "e", "T", "y", "p", "e">>,
       base |-> 0],
      [name |-> <<"G", "P", "S", "i", "m", "p", "l", "e", "T", "y", "p", "e">>,
       base |-> 1],
      [name |-> <<"G", "P", "B", "o", "o", "l", "e", "a", "n">>,
       base |-> 2],
      [name |-> <<"G", "P", "D", "o", "u", "b", "l", "e">>,
       base |-> 2],
      [name |-> <<"G", "P", "L", "o", "n", "g">>,
       base |-> 2],
      [name |-> <<"G", "P", "S", "t", "r", "i", "n", "g">>,
       base |-> 2],
      [name |-> <<"G", "P", "L", "i", "n", "e", "a", "r", "U", "n", "i", "t">>,
       base |-> 1],
      [name |-> <<"G", "P", "F", "e", "a", "t", "u", "r", "e", "R", "e", "c", "o", "r", "d", "S", "e", "t", "L", "a", "y", "e", "r">>,
       base |-> 1],
      [name |-> <<"G", "P", "R", "e", "c", "o", "r", "d", "S", "e", "t">>,
       base |-> 1],
      [name |-> <<"G", "P", "D", "a", "t", "e">>,
       base |-> 1],
      [name |-> <<"G", "P", "D", "a", "t", "a", "F", "i", "l", "e">>,
       base |-> 1],
      [name |-> <<"G", "P", "U", "r", "l", "W", "i", "t", "h", "F", "o", "r", "m", "a", "t", "T", "y", "p", "e">>,
       base |-> 1],
      [name |-> <<"G", "P", "R", "a", "s", "t", "e", "r", "D", "a", "t", "a">>,
       base |-> 12],
      [name |-> <<"G", "P", "R", "a", "s", "t", "e", "r", "L", "a", "y", "e", "r">>,
       base |-> 12]>>

RECURSIVE LoadedMapping(_)
\* _gp_type_mapping after the first n class statements: the global GPBaseType
\* is bound from the second statement on
LoadedMapping(n) ==
    IF n = 0 THEN EmptyDict
    ELSE Register(LoadedMapping(n - 1), n > 1, ModuleClasses[n].name, n)

\* the module has been imported, on an interpreter that accepts line 21
InitLoaded ==
    /\ typeInitOk = TRUE
    /\ bound = TRUE
    /\ defined = ModuleClasses
    /\ gp_type_mapping = LoadedMapping(Len(ModuleClasses))
    /\ call = "none"
    /\ arg = PyNone
    /\ res = PyNone
    /\ prev = NoCall
    /\ strptimeCalls = << >>

SpecScalar == InitLoaded /\ [][NextScalar]_vars

\* the type of the primitive each conversion function returns
PrimitiveOf(cls) ==
    CASE cls = "GPBoolean" -> "bool"
      [] cls = "GPDouble" -> "float"
      [] cls = "GPLong" -> "long"
      [] cls = "GPString" -> "str"

\* a == b as Python compares two primitives: a nan equals nothing
IsNaN(v) == v.t = "float" /\ "other" \in DOMAIN v /\ v.other = "nan"
PyEq(a, b) == a = b /\ ~IsNaN(a)

\* C7 as stated: for a scalar type T and every input v its conversion accepts,
\* T.from_json_struct(v) is the bare primitive of T's conversion, not an
\* instance; it equals the encoding of T(v); and decoding the encoding of T(v)
\* gives a value equal to that encoding.
C7_AsClaimed ==
    (call = "from_json_struct" /\ arg.cls \in ScalarClasses /\ ~IsRaise(res)) =>
        /\ res.t = PrimitiveOf(arg.cls)
        /\ PyEq(res, ScalarJsonStruct(GPSimpleTypeInit(arg.cls, arg.value)))
        /\ prev.call = "_json_struct" => PyEq(res, prev.res)

\* C7 amended: for a scalar type T and every input v its conversion accepts,
\* T.from_json_struct(v) is the bare primitive of T's conversion, not an
\* instance; unless it is a nan it equals the encoding of T(v), and decoding
\* the encoding of T(v) gives a value equal to that encoding; when it is a
\* nan, which equals nothing, the encoding and the decoded encoding are nan
\* as well.
C7_ScalarDecode ==
    (call = "from_json_struct" /\ arg.cls \in ScalarClasses /\ ~IsRaise(res)) =>
        LET encoded == ScalarJsonStruct(GPSimpleTypeInit(arg.cls, arg.value))
        IN  /\ res.t = PrimitiveOf(arg.cls)
            /\ IF IsNaN(res) THEN IsNaN(encoded) ELSE PyEq(res, encoded)
            /\ prev.call = "_json_struct" =>
                   IF IsNaN(res) THEN IsNaN(prev.res) ELSE PyEq(res, prev.res)

\* GPDouble('nan') encoded to nan and that decoded to nan again.
C7_Witness ==
    /\ call = "from_json_struct"
    /\ prev.call = "_json_struct"
    /\ arg.cls = "GPDouble"
    /\ prev.arg.attrs.value = PyStr(<<"n", "a", "n">>)
    /\ IsNaN(arg.value)
    /\ IsNaN(res)

-----------------------------------------------------------------------------
(* GPLinearUnit *)

esriCentimeters == <<"e", "s", "r", "i", "C", "e", "n", "t", "i", "m", "e", "t", "e", "r", "s">>
esriDecimalDegrees == <<"e", "s", "r", "i", "D", "e", "c", "i", "m", "a", "l", "D", "e", "g", "r", "e", "e", "s">>
esriDecimeters == <<"e", "s", "r", "i", "D", "e", "c", "i", "m", "e", "t", "e", "r", "s">>
esriFeet == <<"e", "s", "r", "i", "F", "e", "e", "t">>
esriInches == <<"e", "s", "r", "i", "I", "n", "c", "h", "e", "s">>
esriKilometers == <<"e", "s", "r", "i", "K", "i", "l", "o", "m", "e", "t", "e", "r", "s">>
esriMeters == <<"e", "s", "r", "i", "M", "e", "t", "e", "r", "s">>
esriMiles == <<"e", "s", "r", "i", "M", "i", "l", "e", "s">>
esriMillimeters == <<"e", "s", "r", "i", "M", "i", "l", "l", "i", "m", "e", "t", "e", "r", "s">>
esriNauticalMiles == <<"e", "s", "r", "i", "N", "a", "u", "t", "i", "c", "a", "l", "M", "i", "l", "e", "s">>
esriPoints == <<"e", "s", "r", "i", "P", "o", "i", "n", "t", "s">>
esriUnknownUnits == <<"e", "s", "r", "i", "U", "n", "k", "n", "o", "w", "n", "U", "n", "i", "t", "s">>
esriYards == <<"e", "s", "r", "i", "Y", "a", "r", "d", "s">>
\* unit names the class does not list
esriFurlongs == <<"e", "s", "r", "i", "F", "u", "r", "l", "o", "n", "g", "s">>
esrimeters == <<"e", "s", "r", "i", "m", "e", "t", "e", "r", "s">>

\* GPLinearUnit.allowed_units
allowed_units ==
    {esriCentimeters, esriDecimalDegrees, esriDecimeters, esriFeet, esriInches,
     esriKilometers, esriMeters, esriMiles, esriMillimeters, esriNauticalMiles,
     esriPoints, esriUnknownUnits, esriYards}

\* val[key] on a JSON value
GetItem(val, key) ==
    IF val.t /= "dict" THEN Raise("TypeError")
    ELSE IF key \in DOMAIN val.d THEN val.d[key]
    ELSE Raise("KeyError")

\* isinstance(value, (list, tuple)) and len(value) == 2
IsPair(value) == value.t \in {"list", "tuple"} /\ Len(value.items) = 2

\* the value and the unit after `value, unit = value`
UnpackedValue(value, unit) == IF IsPair(value) THEN value.items[1] ELSE value
UnpackedUnit(value, unit) == IF IsPair(value) THEN value.items[2] ELSE unit

\* __init__ without the membership assertion
GPLinearUnitInitUnchecked(value, unit) ==
    LET distance == ToFloat(UnpackedValue(value, unit))
    IN  IF IsRaise(distance) THEN distance
        ELSE Obj("GPLinearUnit",
                 [distance |-> distance,
                  units |-> IF UnpackedUnit(value, unit).t = "none"
                            THEN PyStr(esriMeters)
                            ELSE UnpackedUnit(value, unit)])

\* GPLinearUnit.__init__: unpack a pair, coerce the value, default or check
\* the unit
GPLinearUnitInit(value, unit) ==
    LET v == UnpackedValue(value, unit)
        u == UnpackedUnit(value, unit)
        distance == ToFloat(v)
    IN  IF IsRaise(distance) THEN distance
        ELSE IF u.t = "none"
             THEN Obj("GPLinearUnit", [distance |-> distance, units |-> PyStr(esriMeters)])
        ELSE IF u.s \notin allowed_units THEN Raise("AssertionError")
        ELSE Obj("GPLinearUnit", [distance |-> distance, units |-> u])

\* GPLinearUnit._json_struct
GPLinearUnitJsonStruct(self) ==
    PyDict([distance |-> self.attrs.distance, units |-> self.attrs.units])

\* GPLinearUnit.from_json_struct
GPLinearUnitFromJsonStruct(val) ==
    LET d == GetItem(val, "distance")
        u == GetItem(val, "units")
    IN  IF IsRaise(d) THEN d
        ELSE IF IsRaise(u) THEN u
        ELSE GPLinearUnitInit(d, u)

UnitInputs ==
    {PyNone, PyStr(esriMeters), PyStr(esriFeet), PyStr(esriNauticalMiles),
     PyStr(esriFurlongs), PyStr(esrimeters), PyStr(<< >>)}

PlainValueInputs ==
    {PyInt(5), PyFloat(25), PyStr(<<"1", "5">>), PyStr(<<"a", "b", "c">>), PyNone}

ValueInputs ==
    PlainValueInputs
        \cup {PyList(<<v, u>>) : v \in {PyInt(5), PyStr(<<"a", "b", "c">>)}, u \in UnitInputs}
        \cup {PyList(<<PyInt(5)>>), PyList(<<PyInt(5), PyStr(esriFeet), PyInt(1)>>),
              PyTuple(<<PyInt(5), PyStr(esriFeet)>>), PyTuple(<<PyInt(5), PyStr(esriFurlongs)>>),
              PyStr(<<"", "7">>)}

-----------------------------------------------------------------------------
(* GPDataFile, GPUrlWithFormatType, GPRasterData, GPRasterLayer *)

UrlFormatClasses == {"GPUrlWithFormatType", "GPRasterData", "GPRasterLayer"}
StructClasses == {"GPLinearUnit", "GPDataFile"} \cup UrlFormatClasses

\* GPDataFile.__init__
GPDataFileInit(url) == Obj("GPDataFile", [url |-> url])

\* GPDataFile._json_struct, called
GPDataFileJsonStructCall(self) == PyDict([url |-> self.attrs.url])

\* GPDataFile.from_json_struct
GPDataFileFromJsonStruct(value) ==
    LET url == GetItem(value, "url")
    IN  IF IsRaise(url) THEN url ELSE GPDataFileInit(url)

\* GPUrlWithFormatType.__init__
GPUrlWithFormatTypeInit(cls, url, format) == Obj(cls, [url |-> url, format |-> format])

\* GPUrlWithFormatType._json_struct
GPUrlWithFormatTypeJsonStruct(self) ==
    PyDict([url |-> self.attrs.url, format |-> self.attrs.format])

\* GPUrlWithFormatType.from_json_struct
GPUrlWithFormatTypeFromJsonStruct(cls, value) ==
    LET url == GetItem(value, "url")
        format == GetItem(value, "format")
    IN  IF IsRaise(url) THEN url
        ELSE IF IsRaise(format) THEN format
        ELSE GPUrlWithFormatTypeInit(cls, url, format)

\* The attribute read self._json_struct, as GPBaseType.__str__ makes it.
\* GPLinearUnit and GPUrlWithFormatType declare it a property; GPDataFile
\* declares a plain method, so the read yields the bound method.
ReadJsonStruct(self) ==
    CASE self.cls = "GPLinearUnit" -> GPLinearUnitJsonStruct(self)
      [] self.cls = "GPDataFile" -> BoundMethod(self, "_json_struct")
      [] self.cls \in UrlFormatClasses -> GPUrlWithFormatTypeJsonStruct(self)

\* cls.from_json_struct(value)
StructFromJsonStruct(cls, value) ==
    CASE cls = "GPLinearUnit" -> GPLinearUnitFromJsonStruct(value)
      [] cls = "GPDataFile" -> GPDataFileFromJsonStruct(value)
      [] cls \in UrlFormatClasses -> GPUrlWithFormatTypeFromJsonStruct(cls, value)

UrlInputs == {PyStr(<<"h", "t", "t", "p", ":", "/", "/", "a", "/", "b">>), PyStr(<< >>), PyNone}
FormatInputs == {PyStr(<<"t", "i", "f">>), PyStr(<<"p", "n", "g">>), PyNone}

\* what may arrive where a JSON object is expected
StructJsonInputs ==
    {PyDict([distance |-> v, units |-> u]) : v \in PlainValueInputs, u \in UnitInputs}
        \cup {PyDict([distance |-> PyInt(5)]), PyDict([units |-> PyStr(esriFeet)])}
        \cup {PyDict([url |-> u]) : u \in UrlInputs}
        \cup {PyDict([url |-> u, format |-> f]) : u \in UrlInputs, f \in FormatInputs}
        \cup {PyNone, PyList(<<PyInt(5), PyStr(esriFeet)>>), PyStr(<<"a", "b", "c">>)}

\* GPLinearUnit(value, unit); unit is None when the argument is left out
LinearUnitConstruct(value, unit) ==
    /\ call' = "GPLinearUnit"
    /\ arg' = [value |-> value, unit |-> unit]
    /\ res' = GPLinearUnitInit(value, unit)
    /\ prev' = NoCall
    /\ UNCHANGED idleVars

\* GPDataFile(url)
DataFileConstruct(url) ==
    /\ call' = "GPDataFile"
    /\ arg' = [url |-> url]
    /\ res' = GPDataFileInit(url)
    /\ prev' = NoCall
    /\ UNCHANGED idleVars

\* GPRasterData(url, format), GPRasterLayer(url, format)
UrlFormatConstruct(cls, url, format) ==
    /\ call' = cls
    /\ arg' = [url |-> url, format |-> format]
    /\ res' = GPUrlWithFormatTypeInit(cls, url, format)
    /\ prev' = NoCall
    /\ UNCHANGED idleVars

\* the read x._json_struct on the instance just built or decoded
StructEncode ==
    /\ call \in StructClasses \cup {"from_json_struct"}
    /\ res.t = "obj"
    /\ res.cls \in StructClasses
    /\ call' = "_json_struct"
    /\ arg' = res
    /\ res' = ReadJsonStruct(res)
    /\ prev' = ThisCall
    /\ UNCHANGED idleVars

\* cls.from_json_struct(value) on a value off the wire
StructDecode(cls, value) ==
    /\ call' = "from_json_struct"
    /\ arg' = [cls |-> cls, value |-> value]
    /\ res' = StructFromJsonStruct(cls, value)
    /\ prev' = NoCall
    /\ UNCHANGED idleVars

\* cls.from_json_struct on what the read of _json_struct just gave
StructDecodeWire ==
    /\ call = "_json_struct"
    /\ arg.cls \in StructClasses
    /\ call' = "from_json_struct"
    /\ arg' = [cls |-> arg.cls, value |-> res]
    /\ res' = StructFromJsonStruct(arg.cls, res)
    /\ prev' = ThisCall
    /\ UNCHANGED idleVars

NextStruct ==
    \/ \E value \in ValueInputs : \E unit \in UnitInputs : LinearUnitConstruct(value, unit)
    \/ \E url \in UrlInputs : DataFileConstruct(url)
    \/ \E cls \in UrlFormatClasses : \E url \in UrlInputs : \E format \in FormatInputs :
         UrlFormatConstruct(cls, url, format)
    \/ StructEncode
    \/ \E cls \in StructClasses : \E value \in StructJsonInputs : StructDecode(cls, value)
    \/ StructDecodeWire

SpecStruct == InitLoaded /\ [][NextStruct]_vars

\* a GPLinearUnit was asked for, by the constructor or by from_json_struct
\* with both keys present
LinearUnitAsked ==
    \/ call = "GPLinearUnit"
    \/ /\ call = "from_json_struct"
       /\ arg.cls = "GPLinearUnit"
       /\ arg.value.t = "dict"
       /\ DOMAIN arg.value.d = {"distance", "units"}

\* the value and unit arguments the constructor was entered with
ArgValue == IF call = "GPLinearUnit" THEN arg.value ELSE arg.value.d.distance
ArgUnit == IF call = "GPLinearUnit" THEN arg.unit ELSE arg.value.d.units

\* every unit handed to the constructor: the unit argument, and the second
\* element of a two-element sequence
UnitsGiven ==
    {u \in {ArgUnit} \cup (IF IsPair(ArgValue) THEN {ArgValue.items[2]} ELSE {}) :
        u.t /= "none"}

\* units in the allowed set, distance the float of the given value, esriMeters
\* when no unit was given
LinearUnitValueOk ==
    res.t = "obj" =>
        /\ res.attrs.units.s \in allowed_units
        /\ res.attrs.distance = ToFloat(UnpackedValue(ArgValue, ArgUnit))
        /\ res.attrs.distance.t = "float"
        /\ UnitsGiven = {} => res.attrs.units = PyStr(esriMeters)

\* C3 as stated: a GPLinearUnit that exists has an allowed unit and the float
\* of the given value as distance, esriMeters when no unit was given; and a
\* unit outside the allowed set, given in either place, makes construction
\* fail and yield no value, with the AssertionError (InvalidUnit) when the
\* value itself is acceptable.
C3_AsClaimed ==
    LinearUnitAsked =>
        /\ LinearUnitValueOk
        /\ (\E u \in UnitsGiven : u.s \notin allowed_units) =>
              /\ IsRaise(res)
              /\ ~IsRaise(ToFloat(UnpackedValue(ArgValue, ArgUnit))) =>
                    res = Raise("AssertionError")

\* C3 amended: a GPLinearUnit that exists has an allowed unit and the float of
\* the given value as distance.  The unit in force is the second element of a
\* two-element sequence when the value is one (an extra unit argument is then
\* ignored), the unit argument otherwise: the value gets esriMeters when it is
\* None and that unit when it is allowed; when it is outside the set no value
\* is built, and the error is the AssertionError (InvalidUnit) unless the
\* value already failed its float coercion.
C3_LinearUnit ==
    LinearUnitAsked =>
        LET u == UnpackedUnit(ArgValue, ArgUnit)
            d == ToFloat(UnpackedValue(ArgValue, ArgUnit))
        IN  /\ LinearUnitValueOk
            /\ res.t = "obj" =>
                  res.attrs.units = (IF u.t = "none" THEN PyStr(esriMeters) ELSE u)
            /\ (u.t /= "none" /\ u.s \notin allowed_units) =>
                  /\ IsRaise(res)
                  /\ ~IsRaise(d) => res = Raise("AssertionError")
            /\ ~(u.t /= "none" /\ u.s \notin allowed_units) /\ ~IsRaise(d) =>
                  res.t = "obj"

\* GPLinearUnit([5, esriFurlongs], esriFeet) raised the AssertionError.
C3_Witness ==
    /\ call = "GPLinearUnit"
    /\ arg.value = PyList(<<PyInt(5), PyStr(esriFurlongs)>>)
    /\ arg.unit = PyStr(esriFeet)
    /\ res = Raise("AssertionError")

\* the object the wire table gives for x
WireTable(x) ==
    CASE x.cls = "GPLinearUnit" ->
            PyDict([distance |-> x.attrs.distance, units |-> x.attrs.units])
      [] x.cls = "GPDataFile" -> PyDict([url |-> x.attrs.url])
      [] x.cls \in UrlFormatClasses ->
            PyDict([url |-> x.attrs.url, format |-> x.attrs.format])

C8Classes == {"GPLinearUnit", "GPDataFile", "GPRasterData", "GPRasterLayer"}

\* C8 as stated: for x a GPLinearUnit, GPDataFile, GPRasterData or
\* GPRasterLayer, reading x._json_struct gives the object of the wire table,
\* and from_json_struct of x's type on it returns a value of that type with
\* x's fields.
C8_AsClaimed ==
    /\ (call = "_json_struct" /\ arg.cls \in C8Classes) => res = WireTable(arg)
    /\ (call = "from_json_struct" /\ prev.call = "_json_struct"
            /\ arg.cls \in C8Classes) =>
          /\ res.t = "obj"
          /\ res.cls = prev.arg.cls
          /\ res.attrs = prev.arg.attrs

-----------------------------------------------------------------------------
(* GPFeatureRecordSetLayer.  The geometry module is outside this file: a
   geometry carries its __geometry_type__ tag, its spatialReference and,
   possibly, an attributes mapping, and encodes itself for a feature set. *)

\* the most features a collection is built from
MaxFeatures == 2

GeometryTypes == {"esriGeometryPoint", "esriGeometryPolygon"}
Wkids == {4326, 102100}

\* a geometry object; attributes is the key set of its attributes mapping
Geom(type, wkid, hasAttributes, attributes) ==
    [t |-> "geom", geometry_type |-> type, spatialReference |-> PyInt(wkid),
     hasAttributes |-> hasAttributes, attributes |-> attributes]

Geometries ==
    {Geom(type, wkid, TRUE, keys) :
        type \in GeometryTypes, wkid \in Wkids, keys \in {{}, {"name"}}}
    \cup {Geom(type, 4326, FALSE, {}) : type \in GeometryTypes}

\* geometry.SpatialReference(sr): from a well-known id or another reference
SpatialReference(sr) == IF sr.t = "sr" THEN sr ELSE [t |-> "sr", wkid |-> sr.n]

\* SpatialReference._json_struct
SpatialReferenceJsonStruct(sr) == PyDict([wkid |-> PyInt(sr.wkid)])

\* Geometry._json_struct_for_featureset
JsonStructForFeatureset(geom) ==
    PyDict([geometry |-> geom.geometry_type, wkid |-> geom.spatialReference.n,
            attributes |-> geom.attributes])

\* the keys of getattr(row, 'attributes', {})
AttributeKeys(row) == IF row.hasAttributes THEN row.attributes ELSE {}

\* isinstance(Geometry, geometry.Geometry): wrap a single geometry
AsFeatures(Geometry) == IF Geometry.t = "geom" THEN <<Geometry>> ELSE Geometry.items

\* __init__ taking the first feature's reference even when one is passed
GPFeatureRecordSetLayerInitFirstFeature(Geometry, sr) ==
    LET features == AsFeatures(Geometry)
    IN  IF Len(features) = 0 /\ ~Truth(sr) THEN Raise("ValueError")
        ELSE Obj("GPFeatureRecordSetLayer",
                 [features |-> features,
                  spatialReference |->
                      IF Len(features) /= 0
                      THEN SpatialReference(features[1].spatialReference)
                      ELSE SpatialReference(sr),
                  fields |-> UNION {AttributeKeys(features[i]) : i \in 1..Len(features)}])

\* GPFeatureRecordSetLayer.__init__
GPFeatureRecordSetLayerInit(Geometry, sr) ==
    LET features == AsFeatures(Geometry)
        fields == UNION {AttributeKeys(features[i]) : i \in 1..Len(features)}
    IN  IF Truth(sr)
        THEN Obj("GPFeatureRecordSetLayer",
                 [features |-> features,
                  spatialReference |-> SpatialReference(sr),
                  fields |-> fields])
        ELSE IF Len(features) /= 0
        THEN Obj("GPFeatureRecordSetLayer",
                 [features |-> features,
                  spatialReference |-> SpatialReference(features[1].spatialReference),
                  fields |-> fields])
        ELSE Raise("ValueError")

\* set(geom.__geometry_type__ for geom in self.features)
GeometryTypesOf(self) ==
    {self.attrs.features[i].geometry_type : i \in 1..Len(self.attrs.features)}

\* the object _json_struct returns for one geometry type
FeatureSetJson(self, geometry_type) ==
    PyDict([geometryType |-> geometry_type,
            spatialReference |-> SpatialReferenceJsonStruct(self.attrs.spatialReference),
            features |-> [i \in 1..Len(self.attrs.features) |->
                              JsonStructForFeatureset(self.attrs.features[i])]])

\* _json_struct without the consistency assertion
GPFeatureRecordSetLayerJsonStructAnyType(self) ==
    IF GeometryTypesOf(self) = {} THEN Raise("IndexError")
    ELSE FeatureSetJson(self, CHOOSE g \in GeometryTypesOf(self) : TRUE)

\* GPFeatureRecordSetLayer._json_struct
GPFeatureRecordSetLayerJsonStruct(self) ==
    IF Cardinality(GeometryTypesOf(self)) /= 1 THEN Raise("AssertionError")
    ELSE FeatureSetJson(self, CHOOSE g \in GeometryTypesOf(self) : TRUE)

RECURSIVE SeqsUpTo(_, _)
\* the sequences over S of length at most n
SeqsUpTo(S, n) ==
    IF n = 0 THEN {<< >>}
    ELSE SeqsUpTo(S, n - 1)
            \cup {Append(q, x) : q \in {r \in SeqsUpTo(S, n - 1) : Len(r) = n - 1}, x \in S}

GeometryInputs ==
    Geometries \cup {PyList(q) : q \in SeqsUpTo(Geometries, MaxFeatures)}
        \cup {PyTuple(q) : q \in SeqsUpTo(Geometries, 1)}

\* sr: left out (None), a well-known id, 0, or a SpatialReference
SrInputs == {PyNone, PyInt(0), PyInt(4326), [t |-> "sr", wkid |-> 102100]}

\* GPFeatureRecordSetLayer(Geometry, sr)
FeatureConstruct(Geometry, sr) ==
    /\ call' = "GPFeatureRecordSetLayer"
    /\ arg' = [Geometry |-> Geometry, sr |-> sr]
    /\ res' = GPFeatureRecordSetLayerInit(Geometry, sr)
    /\ prev' = NoCall
    /\ UNCHANGED idleVars

\* x._json_struct on the collection just built
FeatureEncode ==
    /\ call = "GPFeatureRecordSetLayer"
    /\ res.t = "obj"
    /\ call' = "_json_struct"
    /\ arg' = res
    /\ res' = GPFeatureRecordSetLayerJsonStruct(res)
    /\ prev' = ThisCall
    /\ UNCHANGED idleVars

NextFeature ==
    \/ \E Geometry \in GeometryInputs : \E sr \in SrInputs : FeatureConstruct(Geometry, sr)
    \/ FeatureEncode

SpecFeature == InitLoaded /\ [][NextFeature]_vars

\* all features of the collection report the same geometry-type tag
SameTag(self) ==
    \A i, j \in 1..Len(self.attrs.features) :
        self.attrs.features[i].geometry_type = self.attrs.features[j].geometry_type

\* the encoding has the three keys, the tag of the features, the encoded
\* reference and the features' encodings in the stored order
EncodedAs(self, json) ==
    /\ json.t = "dict"
    /\ DOMAIN json.d = {"geometryType", "spatialReference", "features"}
    /\ \A i \in 1..Len(self.attrs.features) :
          json.d.geometryType = self.attrs.features[i].geometry_type
    /\ json.d.spatialReference = SpatialReferenceJsonStruct(self.attrs.spatialReference)
    /\ Len(json.d.features) = Len(self.attrs.features)
    /\ \A i \in 1..Len(self.attrs.features) :
          json.d.features[i] = JsonStructForFeatureset(self.attrs.features[i])

\* C5 as stated: encoding a collection succeeds with exactly the keys
\* geometryType, spatialReference and features (in stored order) whenever all
\* its features report the same tag, an empty collection built with an
\* explicit reference included, and raises the AssertionError
\* (InconsistentGeometry) otherwise.
C5_AsClaimed ==
    (call = "_json_struct" /\ arg.cls = "GPFeatureRecordSetLayer") =>
        IF SameTag(arg) THEN EncodedAs(arg, res) ELSE res = Raise("AssertionError")

\* C5 amended: encoding a collection succeeds with exactly the keys
\* geometryType, spatialReference and features (in stored order) whenever it
\* has at least one feature and all its features report the same tag, and
\* raises the AssertionError (InconsistentGeometry) otherwise, which includes
\* the empty collection built with an explicit reference.
C5_Encode ==
    (call = "_json_struct" /\ arg.cls = "GPFeatureRecordSetLayer") =>
        IF Len(arg.attrs.features) > 0 /\ SameTag(arg)
        THEN EncodedAs(arg, res)
        ELSE res = Raise("AssertionError")

\* An empty collection built with sr = 4326 was encoded and the encoding
\* raised the AssertionError.
C5_Witness ==
    /\ call = "_json_struct"
    /\ arg.cls = "GPFeatureRecordSetLayer"
    /\ arg.attrs.features = << >>
    /\ prev.arg.sr = PyInt(4326)
    /\ res = Raise("AssertionError")

\* C6 as stated: construction takes the supplied spatial reference whenever
\* one is supplied (any sr other than None, 0 included), otherwise that of the
\* first feature; it raises the ValueError (MissingSpatialReference) exactly
\* when none is supplied and there is no feature; in every other case the
\* value has its spatialReference set and the given geometries as features.
\* GPFeatureRecordSetLayer([], 0) raises although 0 was supplied, and
\* GPFeatureRecordSetLayer([point], 0) takes the point's reference.
C6_AsClaimed ==
    call = "GPFeatureRecordSetLayer" =>
        LET given == IF arg.Geometry.t = "geom" THEN <<arg.Geometry>> ELSE arg.Geometry.items
            supplied == arg.sr.t /= "none"
        IN  /\ res = Raise("ValueError") <=> (~supplied /\ given = << >>)
            /\ ~(~supplied /\ given = << >>) =>
                  /\ res.t = "obj"
                  /\ res.attrs.features = given
                  /\ res.attrs.spatialReference.t = "sr"
                  /\ res.attrs.spatialReference.wkid =
                        IF supplied
                        THEN (IF arg.sr.t = "sr" THEN arg.sr.wkid ELSE arg.sr.n)
                        ELSE given[1].spatialReference.n

\* C6 amended: construction takes the supplied spatial reference when it
\* tests true (a sr of None or 0 counts as not supplied), otherwise that of
\* the first feature; it raises the ValueError (MissingSpatialReference)
\* exactly when no sr that tests true is supplied and there is no feature; in
\* every other case the value has its spatialReference set and the given
\* geometries as features, a single geometry as a one-element sequence.
C6_Construct ==
    call = "GPFeatureRecordSetLayer" =>
        LET given == IF arg.Geometry.t = "geom" THEN <<arg.Geometry>> ELSE arg.Geometry.items
            passed == arg.sr.t /= "none" /\ arg.sr /= PyInt(0)
        IN  /\ res = Raise("ValueError") <=> (~passed /\ given = << >>)
            /\ ~(~passed /\ given = << >>) =>
                  /\ res.t = "obj"
                  /\ res.attrs.features = given
                  /\ res.attrs.spatialReference.t = "sr"
                  /\ res.attrs.spatialReference.wkid =
                        IF passed
                        THEN (IF arg.sr.t = "sr" THEN arg.sr.wkid ELSE arg.sr.n)
                        ELSE given[1].spatialReference.n

\* A single point of reference 102100 was passed with sr = 4326: the value
\* holds the one-element sequence and the passed reference.
C6_Witness ==
    /\ call = "GPFeatureRecordSetLayer"
    /\ arg.Geometry = Geom("esriGeometryPoint", 102100, TRUE, {"name"})
    /\ arg.sr = PyInt(4326)
    /\ res.t = "obj"
    /\ res.attrs.features = <<Geom("esriGeometryPoint", 102100, TRUE, {"name"})>>
    /\ res.attrs.spatialReference = [t |-> "sr", wkid |-> 4326]

-----------------------------------------------------------------------------
(* Dates: datetime.strftime and datetime.strptime, for the directives
   %Y %m %d %H %M %S %a %b %Z and %%, as the C locale renders them *)

DayNames == <<<<"M", "o", "n">>, <<"T", "u", "e">>, <<"W", "e", "d">>, <<"T", "h", "u">>, <<"F", "r", "i">>, <<"S", "a", "t">>, <<"S", "u", "n">>>>
MonthNames ==
    <<<<"J", "a", "n">>, <<"F", "e", "b">>, <<"M", "a", "r">>, <<"A", "p", "r">>,
      <<"M", "a", "y">>, <<"J", "u", "n">>, <<"J", "u", "l">>, <<"A", "u", "g">>,
      <<"S", "e", "p">>, <<"O", "c", "t">>, <<"N", "o", "v">>, <<"D", "e", "c">>>>
\* the zone names strptime knows on a host whose local zone is UTC
ZoneNames == <<<<"u", "t", "c">>, <<"g", "m", "t">>>>

\* a datetime.datetime
DateTime(year, month, day, hour, minute, second) ==
    [t |-> "datetime", year |-> year, month |-> month, day |-> day,
     hour |-> hour, minute |-> minute, second |-> second]

DaysInMonth(year, month) ==
    IF month = 2
    THEN (IF (year % 4 = 0 /\ year % 100 /= 0) \/ year % 400 = 0 THEN 29 ELSE 28)
    ELSE IF month \in {4, 6, 9, 11} THEN 30 ELSE 31

\* date.weekday(): Monday is 0
Weekday(date) ==
    LET offsets == <<0, 3, 2, 5, 0, 3, 5, 1, 4, 6, 2, 4>>
        y == IF date.month < 3 THEN date.year - 1 ELSE date.year
        sunday0 == (y + (y \div 4) - (y \div 100) + (y \div 400)
                        + offsets[date.month] + date.day) % 7
    IN  (sunday0 + 6) % 7

\* what strftime writes for one directive; a naive datetime has no zone name
Rendered(date, directive) ==
    LET Pad2(n) == <<DigitChars[(n \div 10) + 1], DigitChars[(n % 10) + 1]>>
    IN
    CASE directive = "Y" -> Pad2(date.year \div 100) \o Pad2(date.year % 100)
      [] directive = "m" -> Pad2(date.month)
      [] directive = "d" -> Pad2(date.day)
      [] directive = "H" -> Pad2(date.hour)
      [] directive = "M" -> Pad2(date.minute)
      [] directive = "S" -> Pad2(date.second)
      [] directive = "a" -> DayNames[Weekday(date) + 1]
      [] directive = "b" -> MonthNames[date.month]
      [] directive = "Z" -> << >>
      [] directive = "%" -> <<"%">>

RECURSIVE Render(_, _)
\* the text of date under a format whose every % starts a directive
Render(date, format) ==
    IF format = << >> THEN << >>
    ELSE IF format[1] = "%"
         THEN Rendered(date, format[2]) \o Render(date, SubSeq(format, 3, Len(format)))
    ELSE <<format[1]>> \o Render(date, Tail(format))

\* date.strftime(format): a year before 1900 is refused, whatever the format
Strftime(date, format) ==
    IF date.year < 1900 THEN Raise("ValueError") ELSE PyStr(Render(date, format))

\* one alternative per name, each character its own class
NameAlternatives(names) ==
    [n \in 1..Len(names) |-> [k \in 1..Len(names[n]) |-> {Lower(names[n][k])}]]

\* The regular expression strptime gives a directive: its alternatives in
\* order, each a sequence of character classes.
Alternatives(directive) ==
    LET Digits == {DigitChars[k] : k \in 1..10}
    IN
    CASE directive = "Y" -> << <<Digits, Digits, Digits, Digits>> >>
      [] directive = "m" ->
            << <<{"1"}, {"0", "1", "2"}>>, <<{"0"}, (Digits \ {"0"})>>, <<(Digits \ {"0"})>> >>
      [] directive = "d" ->
            << <<{"3"}, {"0", "1"}>>, <<{"1", "2"}, Digits>>, <<{"0"}, (Digits \ {"0"})>>,
               <<(Digits \ {"0"})>>, <<{" "}, (Digits \ {"0"})>> >>
      [] directive = "H" ->
            << <<{"2"}, {"0", "1", "2", "3"}>>, <<{"0", "1"}, Digits>>, <<Digits>> >>
      [] directive = "M" ->
            << <<{"0", "1", "2", "3", "4", "5"}, Digits>>, <<Digits>> >>
      [] directive = "S" ->
            << <<{"6"}, {"0", "1"}>>, <<{"0", "1", "2", "3", "4", "5"}, Digits>>,
               <<Digits>> >>
      [] directive = "a" -> NameAlternatives(DayNames)
      [] directive = "b" -> NameAlternatives(MonthNames)
      [] directive = "Z" -> NameAlternatives(ZoneNames)

ParsedDirectives == {"Y", "m", "d", "H", "M", "S", "a", "b", "Z"}
\* the other directives strptime has a regular expression for
OtherDirectives == {"A", "B", "c", "f", "I", "j", "p", "U", "w", "W", "x", "X", "y"}


RECURSIVE Tokens(_)
\* TimeRE.pattern: a run of whitespace becomes \s+, %% a percent sign, %x the
\* expression of directive x, anything else itself.  The result is the token
\* sequence, or the exception an unknown directive (KeyError, reported as
\* ValueError) or a trailing % (IndexError, reported as ValueError) raises.
Tokens(format) ==
    IF format = << >> THEN [ok |-> TRUE, tokens |-> << >>]
    ELSE IF format[1] \in Whitespace
         THEN LET rest == Tokens(LStrip(format))
              IN  IF rest.ok THEN [ok |-> TRUE, tokens |-> <<[k |-> "ws", c |-> " "]>> \o rest.tokens] ELSE rest
    ELSE IF format[1] /= "%"
         THEN LET rest == Tokens(Tail(format))
              IN  IF rest.ok THEN [ok |-> TRUE, tokens |-> <<[k |-> "lit", c |-> format[1]]>> \o rest.tokens]
                  ELSE rest
    ELSE IF Len(format) = 1 THEN [ok |-> FALSE, exc |-> "ValueError"]
    ELSE IF format[2] = "%"
         THEN LET rest == Tokens(SubSeq(format, 3, Len(format)))
              IN  IF rest.ok THEN [ok |-> TRUE, tokens |-> <<[k |-> "lit", c |-> "%"]>> \o rest.tokens]
                  ELSE rest
    ELSE IF format[2] \in ParsedDirectives
         THEN LET rest == Tokens(SubSeq(format, 3, Len(format)))
              IN  IF rest.ok THEN [ok |-> TRUE, tokens |-> <<[k |-> "dir", c |-> format[2]]>> \o rest.tokens]
                  ELSE rest
    ELSE CASE format[2] \notin OtherDirectives -> [ok |-> FALSE, exc |-> "ValueError"]

\* re.compile rejects a group name used twice
RepeatsDirective(tokens) ==
    \E i, j \in 1..Len(tokens) :
        i < j /\ tokens[i].k = "dir" /\ tokens[j].k = "dir" /\ tokens[i].c = tokens[j].c

\* whether the alternative matches s at position j
AltMatches(alt, s, j) ==
    /\ j + Len(alt) - 1 <= Len(s)
    /\ \A k \in 1..Len(alt) : Lower(s[j + k - 1]) \in alt[k]

\* the number of whitespace characters of s from position j on
RECURSIVE BlankRun(_, _)
BlankRun(s, j) == IF j <= Len(s) /\ s[j] \in Whitespace THEN 1 + BlankRun(s, j + 1) ELSE 0

RECURSIVE Match(_, _, _, _), TryAlternative(_, _, _, _, _), TryBlanks(_, _, _, _, _)
\* regex.match of tokens i.. on s from position j: the first match in the
\* order a backtracking matcher tries them, with the text each directive took
\* and the position the match ends at
Match(tokens, i, s, j) ==
    IF i > Len(tokens) THEN [ok |-> TRUE, end |-> j, groups |-> [d \in {} |-> << >>]]
    ELSE IF tokens[i].k = "lit"
         THEN IF j <= Len(s) /\ Lower(s[j]) = Lower(tokens[i].c)
              THEN Match(tokens, i + 1, s, j + 1)
              ELSE [ok |-> FALSE]
    ELSE IF tokens[i].k = "ws" THEN TryBlanks(tokens, i, s, j, BlankRun(s, j))
    ELSE TryAlternative(tokens, i, s, j, 1)

\* \s+ is greedy: the longest run first
TryBlanks(tokens, i, s, j, n) ==
    IF n = 0 THEN [ok |-> FALSE]
    ELSE LET rest == Match(tokens, i + 1, s, j + n)
         IN  IF rest.ok THEN rest ELSE TryBlanks(tokens, i, s, j, n - 1)

TryAlternative(tokens, i, s, j, n) ==
    LET alts == Alternatives(tokens[i].c)
    IN  IF n > Len(alts) THEN [ok |-> FALSE]
        ELSE IF ~AltMatches(alts[n], s, j) THEN TryAlternative(tokens, i, s, j, n + 1)
        ELSE LET rest == Match(tokens, i + 1, s, j + Len(alts[n]))
             IN  IF rest.ok
                 THEN [rest EXCEPT !.groups =
                          DictSet(rest.groups, tokens[i].c,
                                  SubSeq(s, j, j + Len(alts[n]) - 1))]
                 ELSE TryAlternative(tokens, i, s, j, n + 1)

\* ord(c) of a letter
Ord(c) ==
    IF \E k \in 1..26 : UpperChars[k] = c
    THEN 64 + (CHOOSE k \in 1..26 : UpperChars[k] = c)
    ELSE 96 + (CHOOSE k \in 1..26 : LowerChars[k] = c)

RECURSIVE ProbeFrom(_, _, _, _)
\* lookdict_string's loop: the first slot of the probe sequence, from slot i
\* on, that is empty ("") or holds the key; the next slot is
\* 5 * i + perturb + 1 and perturb loses five bits a step
ProbeFrom(table, key, i, perturb) ==
    IF table[i + 1] \in {"", key} THEN i
    ELSE ProbeFrom(table, key, (5 * i + perturb + 1) % Len(table), perturb \div 32)

\* insertdict_clean for a one-letter key.  The hash of a one-letter str is
\* ((1000003 * (ord << 7)) ^ ord) ^ 1 = 128000384 * ord + low, with
\* low = ord ^ 1 below 128: of the hash the probe uses the residue modulo the
\* table size (a power of two up to 128, so low's residue) and the hash
\* without its five lowest bits, 4000012 * ord + low \div 32.  This is
\* the hash of a 64-bit build (a 32-bit build keeps its lowest 32 bits, which
\* the first six steps of a probe do not go beyond); hash randomisation is
\* off unless asked for.
Put(table, key) ==
    LET low == IF Ord(key) % 2 = 0 THEN Ord(key) + 1 ELSE Ord(key) - 1
        first == low % Len(table)
        slot == IF table[first + 1] \in {"", key} THEN first
                ELSE ProbeFrom(table, key, (5 * first + low + 1) % Len(table),
                               (4000012 * Ord(key)) + (low \div 32))
    IN  [table EXCEPT ![slot + 1] = key]

\* the keys of a dict in iteration order: its table from the first slot on
DictKeys(table) == SelectSeq(table, LAMBDA key : key /= "")

RECURSIVE TableSize(_, _)
\* dictresize: the smallest table, doubling from size, with more than minused slots
TableSize(size, minused) ==
    IF size > minused THEN size ELSE TableSize(2 * size, minused)

RECURSIVE PutAll(_, _)
\* dictresize's loop: insertdict_clean of the keys one after the other.  The
\* table after a key is the one element of the set the rest is put into, so
\* it is computed once.
PutAll(table, keys) ==
    IF keys = << >> THEN table
    ELSE CHOOSE all \in {PutAll(next, rest) :
                            next \in {Put(table, Head(keys))}, rest \in {Tail(keys)}} : TRUE

\* PyDict_SetItem: the key is put, and a table that a new key fills to two
\* thirds is replaced by one of more than four times the keys, the keys put
\* again in table order
SetItem(table, key) ==
    LET put == Put(table, key)
        used == Len(DictKeys(put))
    IN  IF used > Len(DictKeys(table)) /\ 3 * used >= 2 * Len(table)
        THEN PutAll([k \in 1..TableSize(8, 4 * used) |-> ""], DictKeys(put))
        ELSE put

RECURSIVE SetItems(_, _)
\* a dict after the keys are set one after the other, each intermediate dict
\* computed once
SetItems(table, keys) ==
    IF keys = << >> THEN table
    ELSE CHOOSE all \in {SetItems(next, rest) :
                            next \in {SetItem(table, Head(keys))}, rest \in {Tail(keys)}} : TRUE

\* found_dict.iterkeys(): the compiled pattern's groupindex takes the
\* directives in format order, and groupdict() is filled in the order
\* groupindex iterates
GroupKeys(tokens) ==
    CHOOSE keys \in
        {DictKeys(SetItems([k \in 1..8 |-> ""], DictKeys(groupindex))) :
            groupindex \in
                {SetItems([k \in 1..8 |-> ""], [k \in 1..Len(directives) |-> directives[k].c]) :
                    directives \in {SelectSeq(tokens, LAMBDA token : token.k = "dir")}}} : TRUE

\* The datetime of the matched groups, keys being the order the loop over
\* found_dict meets them: 1900-01-01 00:00:00 where a field is missing; %b
\* and %m each assign the month, so the one met later stays; the weekday and
\* the zone name are read and not used.  datetime rejects the year 0, a day
\* the month does not have and a second above 59.
FromGroups(keys, groups) ==
    LET Field(directive, default) ==
            IF directive \in DOMAIN groups THEN DigitsToNat(LStrip(groups[directive]))
            ELSE default
        Position(directive) == CHOOSE k \in 1..Len(keys) : keys[k] = directive
        year == Field("Y", 1900)
        month == IF "b" \in DOMAIN groups
                    /\ ("m" \in DOMAIN groups => Position("b") > Position("m"))
                 THEN CHOOSE n \in 1..Len(MonthNames) :
                          /\ Len(MonthNames[n]) = Len(groups["b"])
                          /\ \A k \in 1..Len(groups["b"]) :
                                 Lower(MonthNames[n][k]) = Lower(groups["b"][k])
                 ELSE Field("m", 1)
        day == Field("d", 1)
        second == Field("S", 0)
    IN  IF year < 1 \/ day > DaysInMonth(year, month) \/ second > 59
        THEN Raise("ValueError")
        ELSE DateTime(year, month, day, Field("H", 0), Field("M", 0), second)

\* datetime.datetime.strptime(string, format)
Strptime(string, format) ==
    LET compiled == Tokens(format)
    IN  IF ~compiled.ok THEN Raise(compiled.exc)
        ELSE IF RepeatsDirective(compiled.tokens) THEN Raise("error")
        ELSE LET found == Match(compiled.tokens, 1, string, 1)
             IN  IF ~found.ok THEN Raise("ValueError")
                 ELSE IF found.end /= Len(string) + 1 THEN Raise("ValueError")
                 ELSE FromGroups(GroupKeys(compiled.tokens), found.groups)

-----------------------------------------------------------------------------
(* GPDate *)

\* GPDate.__date_format
date_format == <<"%", "a", " ", "%", "b", " ", "%", "d", " ", "%", "H", ":", "%", "M", ":", "%", "S", " ", "%", "Z", " ", "%", "Y">>

\* the default of the format parameter
DefaultFormat == <<"%", "Y", "-", "%", "m", "-", "%", "d">>

\* the characters from_json_struct puts a percent sign before, in its order
DirectiveAlphabet == <<"%", "a", "A", "b", "B", "c", "d", "H", "I", "j", "m", "M", "p", "S", "U", "w", "W", "x", "X", "y", "Y", "Z">>

RECURSIVE Replace(_, _, _)
\* s.replace(chr, new) for a one-character chr
Replace(s, chr, new) ==
    IF s = << >> THEN << >>
    ELSE (IF s[1] = chr THEN new ELSE <<s[1]>>) \o Replace(Tail(s), chr, new)

\* format.replace('%', '')
Unescape(format) == Replace(format, "%", << >>)

RECURSIVE ReescapeFrom(_, _)
\* the loop over the alphabet from its k-th character on
ReescapeFrom(formatstring, k) ==
    IF k > Len(DirectiveAlphabet) THEN formatstring
    ELSE ReescapeFrom(Replace(formatstring, DirectiveAlphabet[k],
                              <<"%", DirectiveAlphabet[k]>>), k + 1)

\* for chr in "%aAbBcdHIjmMpSUwWxXyYZ": formatstring = formatstring.replace(chr, '%'+chr)
Reescape(formatstring) == ReescapeFrom(formatstring, 1)

\* datetime.datetime.strptime(date, format) on Python values: a format that
\* is not a string is a TypeError
StrptimeCall(date, format) ==
    IF format.t /= "str" THEN Raise("TypeError") ELSE Strptime(date.s, format.s)

\* GPDate.__init__ whose stored format is the one that parsed the date
GPDateInitStoresParsingFormat(date, format) ==
    IF date.t = "str"
    THEN LET first == StrptimeCall(date, format)
             second == StrptimeCall(date, PyStr(date_format))
         IN  IF ~IsRaise(first)
             THEN [res |-> Obj("GPDate", [date |-> first, format |-> format]),
                   calls |-> <<[format |-> format, res |-> first]>>]
             ELSE [res |-> IF IsRaise(second) THEN second
                           ELSE Obj("GPDate", [date |-> second,
                                               format |-> PyStr(date_format)]),
                   calls |-> <<[format |-> format, res |-> first], [format |-> PyStr(date_format), res |-> second]>>]
    ELSE IF date.t = "datetime"
         THEN [res |-> Obj("GPDate", [date |-> date, format |-> format]), calls |-> << >>]
    ELSE [res |-> Raise(IF date.t = "tuple" /\ Len(date.items) /= 1
                        THEN "TypeError" ELSE "ValueError"),
          calls |-> << >>]

\* GPDate.__init__(date, format): the instance or the exception, and the
\* strptime calls made on the way.  The bare except takes any failure of the
\* first parse; a failure of the second is the caller's.  The message of the
\* ValueError is "..." % date, which a tuple of other than one item cannot
\* fill: a TypeError.
GPDateInit(date, format) ==
    IF date.t = "str"
    THEN LET first == StrptimeCall(date, format)
             second == StrptimeCall(date, PyStr(date_format))
         IN  IF ~IsRaise(first)
             THEN [res |-> Obj("GPDate", [date |-> first, format |-> format]),
                   calls |-> <<[format |-> format, res |-> first]>>]
             ELSE [res |-> IF IsRaise(second) THEN second
                           ELSE Obj("GPDate", [date |-> second, format |-> format]),
                   calls |-> <<[format |-> format, res |-> first], [format |-> PyStr(date_format), res |-> second]>>]
    ELSE IF date.t = "datetime"
         THEN [res |-> Obj("GPDate", [date |-> date, format |-> format]), calls |-> << >>]
    ELSE [res |-> Raise(IF date.t = "tuple" /\ Len(date.items) /= 1
                        THEN "TypeError" ELSE "ValueError"),
          calls |-> << >>]

\* GPDate._json_struct
GPDateJsonStruct(self) ==
    IF self.attrs.format.t /= "str" THEN Raise("TypeError")
    ELSE IF IsRaise(Strftime(self.attrs.date, self.attrs.format.s))
         THEN Strftime(self.attrs.date, self.attrs.format.s)
    ELSE PyDict([date |-> Strftime(self.attrs.date, self.attrs.format.s),
                 format |-> PyStr(Unescape(self.attrs.format.s))])

\* GPDate.from_json_struct(value): a dict, a string, or anything else, for
\* which the method ends without a return statement
GPDateFromJsonStruct(value) ==
    IF value.t = "dict"
    THEN IF "date" \notin DOMAIN value.d \/ "format" \notin DOMAIN value.d
         THEN [res |-> Raise("KeyError"), calls |-> << >>]
         ELSE IF value.d.format.t /= "str"
         THEN [res |-> Raise("AttributeError"), calls |-> << >>]
         ELSE GPDateInit(value.d.date, PyStr(Reescape(value.d.format.s)))
    ELSE IF value.t = "str" THEN GPDateInit(value, PyStr(date_format))
    ELSE [res |-> PyNone, calls |-> << >>]

\* the most pieces a generated format is put together from
MaxFormatTokens == 2

\* directives and literal characters formats are put together from
FormatTokens ==
    {<<"%", "Y">>, <<"%", "m">>, <<"%", "d">>, <<"%", "Z">>, <<"%", "%">>, <<"-">>, <<"Z">>, <<"d">>, <<" ">>}

RECURSIVE Flatten(_)
Flatten(q) == IF q = << >> THEN << >> ELSE Head(q) \o Flatten(Tail(q))

Formats ==
    {DefaultFormat, date_format,
     <<"%", "Y", "-", "%", "m", "-", "%", "d", "T", "%", "H", ":", "%", "M", ":", "%", "S", "Z">>,
     <<"%", "b", " ", "%", "m">>,
     <<"%", "m", " ", "%", "b">>,
     <<"%", "Y", " ", "%", "b", " ", "%", "d", " ", "%", "m">>,
     <<"%", "H", " ", "%", "S", " ", "%", "Z", " ", "%", "m", " ", "%", "b">>}
        \cup {Flatten(q) : q \in SeqsUpTo(FormatTokens, MaxFormatTokens)}

DateTimes ==
    {DateTime(2020, 1, 15, 0, 0, 0), DateTime(1999, 12, 31, 23, 59, 58),
     DateTime(2024, 2, 29, 12, 30, 5)}

DateStrings ==
    {<<"2", "0", "2", "0", "-", "0", "1", "-", "1", "5">>, <<"2", "0", "2", "0", "-", "1", "-", "5">>, <<"2", "0", "2", "0", "-", "0", "2", "-", "3", "0">>, <<"2", "0", "2", "0", "-", "0", "1", "-", "1", "5", "T", "0", "0", ":", "0", "0", ":", "0", "0", "Z">>,
     <<"W", "e", "d", " ", "J", "a", "n", " ", "1", "5", " ", "0", "0", ":", "0", "0", ":", "0", "0", " ", "U", "T", "C", " ", "2", "0", "2", "0">>, <<"W", "e", "d", " ", "J", "a", "n", " ", "1", "5", " ", "0", "0", ":", "0", "0", ":", "0", "0", " ", " ", "2", "0", "2", "0">>,
     <<"f", "r", "i", " ", "d", "e", "c", " ", "3", "1", " ", "2", "3", ":", "5", "9", ":", "5", "8", " ", "g", "m", "t", " ", "1", "9", "9", "9">>, <<"2", "0", "2", "0">>, <<"a", "b", "c">>, << >>,
     <<"1", "8", "9", "9", "-", "1", "2", "-", "3", "1">>, <<"0", "0", "0", "0", "-", "0", "1", "-", "0", "1">>,
     <<"j", "a", "n", " ", "1", "2">>,
     <<"1", "2", " ", "j", "a", "n">>,
     <<"2", "0", "2", "0", " ", "f", "e", "b", " ", "3", "0", " ", "0", "3">>,
     <<"0", "3", " ", "0", "4", " ", "U", "T", "C", " ", "1", "2", " ", "j", "a", "n">>}

DateArgs ==
    DateTimes \cup {PyStr(s) : s \in DateStrings}
        \cup {PyNone, PyInt(5), PyTuple(<< >>), PyTuple(<<PyInt(5)>>),
              PyTuple(<<PyInt(2020), PyInt(1)>>)}

DateJsonInputs ==
    {PyDict([date |-> PyStr(s), format |-> PyStr(f)]) :
         s \in DateStrings,
         \* formats as they travel, without percent signs
         f \in {<<"Y", "-", "m", "-", "d">>, <<"Y", "-", "m", "-", "d", "T", "H", ":", "M", ":", "S", "Z">>, <<"a", " ", "b", " ", "d", " ", "H", ":", "M", ":", "S", " ", "Z", " ", "Y">>, <<"Y">>, <<"%", "Y">>, << >>, <<"b", " ", "m">>, <<"Y", " ", "b", " ", "d", " ", "m">>}}
        \cup {PyDict([date |-> PyStr(<<"2", "0", "2", "0", "-", "0", "1", "-", "1", "5">>)]),
              PyDict([format |-> PyStr(<<"Y", "-", "m", "-", "d">>)]),
              PyDict([date |-> PyStr(<<"2", "0", "2", "0", "-", "0", "1", "-", "1", "5">>), format |-> PyNone]),
              PyDict([date |-> PyInt(5), format |-> PyStr(<<"Y", "-", "m", "-", "d">>)]),
              PyDict([date |-> PyTuple(<<PyInt(2020), PyInt(1)>>),
                      format |-> PyStr(<<"Y", "-", "m", "-", "d">>)]),
              PyDict([date |-> PyTuple(<<PyInt(5)>>),
                      format |-> PyStr(<<"Y", "-", "m", "-", "d">>)])}
        \cup {PyStr(s) : s \in DateStrings}
        \cup {PyNone, PyInt(5), PyFloat(15), PyBool(TRUE), PyList(<< >>),
              PyList(<<PyStr(<<"2", "0", "2", "0", "-", "0", "1", "-", "1", "5">>)>>)}

\* the calls a caller starts from: GPDate(date, format), or
\* GPDate.from_json_struct(value) on a value off the wire
DateCalls ==
    {[date |-> date, format |-> format] :
         date \in DateArgs, format \in {PyStr(f) : f \in Formats} \cup {PyNone}}
        \cup {[cls |-> "GPDate", value |-> value] : value \in DateJsonInputs}

\* the module is loaded and a caller holds the arguments of its first call
InitDate ==
    /\ typeInitOk = TRUE
    /\ bound = TRUE
    /\ defined = ModuleClasses
    /\ gp_type_mapping = LoadedMapping(Len(ModuleClasses))
    /\ call = "none"
    /\ arg \in DateCalls
    /\ res = PyNone
    /\ prev = NoCall
    /\ strptimeCalls = << >>

\* GPDate(date, format)
DateConstruct ==
    /\ call = "none"
    /\ "date" \in DOMAIN arg
    /\ call' = "GPDate"
    /\ arg' = arg
    /\ res' = GPDateInit(arg.date, arg.format).res
    /\ strptimeCalls' = GPDateInit(arg.date, arg.format).calls
    /\ prev' = NoCall
    /\ UNCHANGED regVars

\* x._json_struct on the date just built
DateEncode ==
    /\ call = "GPDate"
    /\ res.t = "obj"
    /\ call' = "_json_struct"
    /\ arg' = res
    /\ res' = GPDateJsonStruct(res)
    /\ strptimeCalls' = << >>
    /\ prev' = ThisCall
    /\ UNCHANGED regVars

\* GPDate.from_json_struct(value) on a value off the wire
DateDecode ==
    /\ call = "none"
    /\ "value" \in DOMAIN arg
    /\ call' = "from_json_struct"
    /\ arg' = arg
    /\ res' = GPDateFromJsonStruct(arg.value).res
    /\ strptimeCalls' = GPDateFromJsonStruct(arg.value).calls
    /\ prev' = NoCall
    /\ UNCHANGED regVars

\* GPDate.from_json_struct on the encoding just taken
DateDecodeWire ==
    /\ call = "_json_struct"
    /\ ~IsRaise(res)
    /\ call' = "from_json_struct"
    /\ arg' = [cls |-> "GPDate", value |-> res]
    /\ res' = GPDateFromJsonStruct(res).res
    /\ strptimeCalls' = GPDateFromJsonStruct(res).calls
    /\ prev' = ThisCall
    /\ UNCHANGED regVars

NextDate ==
    \/ DateConstruct
    \/ DateEncode
    \/ DateDecode
    \/ DateDecodeWire

SpecDate == InitDate /\ [][NextDate]_vars

\* the letters of the alphabet, the percent sign aside
DirectiveLetters == {DirectiveAlphabet[k] : k \in 2..Len(DirectiveAlphabet)}

RECURSIVE BuiltFromDirectives(_)
\* the format is made of percent-escaped letters of the alphabet and of
\* literal characters that are not of the alphabet
BuiltFromDirectives(f) ==
    IF f = << >> THEN TRUE
    ELSE IF f[1] = "%"
         THEN /\ Len(f) >= 2
              /\ f[2] \in DirectiveLetters
              /\ BuiltFromDirectives(SubSeq(f, 3, Len(f)))
    ELSE ~Contains(DirectiveAlphabet, f[1]) /\ BuiltFromDirectives(Tail(f))

\* a GPDate was encoded and the encoding decoded
DateRoundTrip ==
    /\ call = "from_json_struct"
    /\ arg.cls = "GPDate"
    /\ prev.call = "_json_struct"
    /\ ~IsRaise(prev.res)

\* C4 as stated: for a GPDate whose format f is built from percent-escaped
\* directives of the alphabet and literal characters, the encoding carries f
\* without its percent signs, and decoding that encoding gives a GPDate whose
\* format is exactly f and whose date reads the same under f.  The literal
\* characters are taken to be those outside the alphabet, the only ones the
\* wire form tells from directives.
C4_AsClaimed ==
    (DateRoundTrip /\ BuiltFromDirectives(prev.arg.attrs.format.s)) =>
        /\ prev.res.d.format = PyStr(Unescape(prev.arg.attrs.format.s))
        /\ ~Contains(prev.res.d.format.s, "%")
        /\ res.t = "obj"
        /\ res.attrs.format = prev.arg.attrs.format
        /\ Strftime(res.attrs.date, prev.arg.attrs.format.s) = prev.res.d.date

\* C9: GPDate(date, format) on a string parses under the supplied format
\* first and under the fallback format only after that parse failed; a date
\* the supplied format parses is stored as that parse; when neither parses,
\* the construction raises ValueError and there is no instance; every instance
\* stores the supplied format, also when the fallback format parsed the date.
C9_ParseOrder ==
    (call = "GPDate" /\ arg.date.t = "str") =>
        LET supplied == StrptimeCall(arg.date, arg.format)
            fallback == Strptime(arg.date.s, date_format)
        IN  /\ Len(strptimeCalls) \in {1, 2}
            /\ strptimeCalls[1] = [format |-> arg.format, res |-> supplied]
            /\ Len(strptimeCalls) = 2 <=> IsRaise(supplied)
            /\ Len(strptimeCalls) = 2 =>
                   strptimeCalls[2] = [format |-> PyStr(date_format), res |-> fallback]
            /\ ~IsRaise(supplied) => res.t = "obj" /\ res.attrs.date = supplied
            /\ (IsRaise(supplied) /\ ~IsRaise(fallback)) =>
                   res.t = "obj" /\ res.attrs.date = fallback
            /\ (IsRaise(supplied) /\ IsRaise(fallback)) => res = Raise("ValueError")
            /\ res.t = "obj" => res.attrs.format = arg.format
            \* GPDate('jan 12', '%b %m'): the supplied format parses, in one call
            /\ (arg.date = PyStr(<<"j", "a", "n", " ", "1", "2">>)
                    /\ arg.format = PyStr(<<"%", "b", " ", "%", "m">>)) =>
                   /\ Len(strptimeCalls) = 1
                   /\ res.t = "obj"
                   /\ res.attrs.date = DateTime(1900, 12, 1, 0, 0, 0)

\* GPDate('Wed Jan 15 00:00:00 UTC 2020', '%Y-%m-%d'): the supplied format
\* fails, the fallback parses, and the instance keeps '%Y-%m-%d'.
C9_Witness ==
    /\ call = "GPDate"
    /\ arg.date = PyStr(<<"W", "e", "d", " ", "J", "a", "n", " ", "1", "5", " ", "0", "0", ":", "0", "0", ":", "0", "0", " ", "U", "T", "C", " ", "2", "0", "2", "0">>)
    /\ arg.format = PyStr(DefaultFormat)
    /\ Len(strptimeCalls) = 2
    /\ IsRaise(strptimeCalls[1].res)
    /\ res.t = "obj"
    /\ res.attrs.date = DateTime(2020, 1, 15, 0, 0, 0)
    /\ res.attrs.format = PyStr(DefaultFormat)

\* C10 as stated: GPDate.from_json_struct gives a GPDate or raises, whatever
\* the JSON value; it never ends without a value.
C10_AsClaimed ==
    (call = "from_json_struct" /\ arg.cls = "GPDate") =>
        (res.t = "obj" /\ res.cls = "GPDate") \/ IsRaise(res)

=============================================================================
